---------------------------- MODULE Spec2Model ----------------------------
(***************************************************************************)
(* A state-machine model of the ownership and synchronisation primitives   *)
(* of the `pointers` crate: Arc (arc.rs), Mutex (mutex.rs), FutexMutex     *)
(* (futex_mutex.rs), RwLock (rwlock.rs), RefCell (refcell.rs), AsyncMutex  *)
(* (async_mutex.rs), Cell (cell.rs) and Rc (rc.rs).                        *)
(*                                                                         *)
(* One behaviour of the model follows ONE object of the crate from its     *)
(* construction: `obj` records which type was constructed, and only the    *)
(* operations of that type are enabled.  Threads are the clients of the    *)
(* object; every atomic instruction of the source is one action, so that   *)
(* every interleaving of the instructions is a behaviour of the model.     *)
(***************************************************************************)
EXTENDS Naturals, Integers, Sequences, FiniteSets

\* ---------------------------------------------------------------- bounds
\* Number of client threads sharing the object.
NThreads == 3
\* Cap on the Arc owner count (clone is disabled at the cap).
MaxOwner == 3
\* Guarded increments each thread performs in the contention tests.
NIter == 2
\* Cap on the payload of RwLock and RefCell (writes are disabled at the cap).
MaxValue == 2
\* Number of guards of a RefCell its client can hold at once.
MaxGuards == 3
\* Passes of the get/set loop each thread of the Cell race test makes
\* (100000 in the test).
NPasses == 3

Threads == 1..NThreads

VARIABLES
    obj,        \* which type was constructed: "Arc", "Mutex", "FutexMutex", ...
    pc,         \* pc[t]: the instruction thread t executes next
    local,      \* local[t]: the local variable of the call thread t is in
    value,      \* the payload (`value: UnsafeCell<T>`) of a lock or cell
    iter,       \* iter[t]: guarded increments thread t has completed
    panicked,   \* an assert! or unreachable!() of the source has fired
    owner,      \* ArcInner.owner: the atomic owner count
    held,       \* held[t]: number of live Arc handles thread t owns
    frees,      \* one record per execution of drop(Box::from_raw(..))
    tracked,    \* the threads whose accesses to the Arc payload the three
                \* variables below follow
    view,       \* view[t]: the tracked threads whose accesses to the payload
                \* so far all happen-before the point thread t is at
    sync,       \* the threads whose accesses so far are published by the
                \* release sequences `owner` is the tail of
    seen,       \* seen[t]: what the fetch_sub of the drop() thread t is in
                \* read from, not acquired until a fence
    locked,     \* Mutex.locked: AtomicBool
    futex,      \* FutexMutex.futex.value: the futex word
    rwstate,    \* RwLock.state: AtomicIsize
    refstate,   \* RefCell.state: Cell<RefState>
    guards,     \* guards[g]: "Ref" or "RefMut" if guard g is live, else "none"
    last,       \* the last RefCell operation and what it returned
    given,      \* the value most recently handed over by new() or set()
    permits,    \* AsyncMutex.locked: permits the Semaphore has available
    closed,     \* AsyncMutex.locked: the Semaphore has been closed
    waiters,    \* AsyncMutex.locked: tasks suspended in acquire(), in order
    owner_count, \* RcInner.owner_count: Cell<usize>
    handles     \* the live Rc handles (the variables that own one)

vars == <<obj, pc, local, value, iter, panicked, owner, held, frees,
          tracked, view, sync, seen,
          locked, futex, rwstate, refstate, guards, last,
          given, permits, closed, waiters, owner_count, handles>>

\* The variables of the types other than the one an action belongs to.
arcVars == <<owner, held, frees, tracked, view, sync, seen>>
refVars == <<refstate, guards, last>>
asyncVars == <<permits, closed, waiters>>
rcVars == <<owner_count, handles>>

NotArc ==
    UNCHANGED <<value, iter, panicked, locked, futex, rwstate, refVars,
                given, asyncVars, rcVars>>
NotMutex ==
    UNCHANGED <<panicked, arcVars, futex, rwstate, refVars,
                given, asyncVars, rcVars>>
NotFutexMutex ==
    UNCHANGED <<panicked, arcVars, locked, rwstate, refVars,
                given, asyncVars, rcVars>>
NotRwLock ==
    UNCHANGED <<iter, arcVars, locked, futex, refVars,
                given, asyncVars, rcVars>>
NotRefCell ==
    UNCHANGED <<pc, local, iter, arcVars, locked, futex, rwstate,
                given, asyncVars, rcVars>>
NotAsyncMutex ==
    UNCHANGED <<panicked, arcVars, locked, futex, rwstate, refVars,
                given, rcVars>>
NotRc ==
    UNCHANGED <<iter, owner, held, tracked, view, sync, seen, locked, futex, rwstate,
                refVars, asyncVars>>
NotCell ==
    UNCHANGED <<arcVars, locked, futex, rwstate, refVars,
                asyncVars, rcVars>>

\* RefState of refcell.rs as a record; n is meaningful for Shared only.
Shared(n) == [tag |-> "Shared", n |-> n]
Exclusive == [tag |-> "Exclusive", n |-> 0]
Unshared == [tag |-> "Unshared", n |-> 0]

\* What a variable holds when the object constructed is of another type.
NoThreads == pc = [t \in Threads |-> "none"] /\ local = [t \in Threads |-> 0]
NoIter == iter = [t \in Threads |-> 0]
NoArc ==
    /\ owner = 0 /\ held = [t \in Threads |-> 0] /\ frees = <<>>
    /\ tracked = {} /\ view = [t \in Threads |-> {}] /\ sync = {}
    /\ seen = [t \in Threads |-> {}]
NoRefCell ==
    /\ refstate = Unshared /\ guards = <<>>
    /\ last = [op |-> "none", before |-> Unshared, rd |-> 0, wr |-> 0,
               some |-> FALSE, val |-> 0]
NoAsyncMutex == permits = 0 /\ closed = FALSE /\ waiters = <<>>
NoRc == owner_count = 0 /\ handles = {}

\* ------------------------------------------------------- atomic operations
\* Fault: clone() copies the pointer without counting the new handle.
FetchAdd_NoCount(c) == c

\* AtomicUsize::fetch_add(1): the new value of the cell (the old is returned).
FetchAdd(c) == c + 1

\* Fault: the drop of a guard or handle adds where it should subtract.
FetchSub_Adds(c) == c + 1

\* Fault: a fetch_sub that takes 2 off the cell.
FetchSub_Two(c) == c - 2

\* AtomicUsize/AtomicIsize::fetch_sub(1): the new value of the cell (the old
\* is returned).
FetchSub(c) == c - 1

RECURSIVE SumOver(_, _)
\* Sum of f[t] for t in S.
SumOver(f, S) ==
    IF S = {} THEN 0
    ELSE LET t == CHOOSE x \in S : TRUE IN f[t] + SumOver(f, S \ {t})

\* ==================================================================== Arc
\* Live handles: those a thread owns and has not yet passed to drop().
LiveHandles == SumOver(held, Threads)

\* Threads between clone()'s fetch_add and the return of the new handle.
ClonesInFlight == Cardinality({t \in Threads : pc[t] = "clone_ret"})

\* Arc::new(data): owner = 1, one handle, owned by the constructing thread.
InitArc ==
    /\ obj = "Arc"
    /\ pc = [t \in Threads |-> "idle"]
    /\ local = [t \in Threads |-> 0]
    /\ owner = 1
    /\ held = [t \in Threads |-> IF t = 1 THEN 1 ELSE 0]
    /\ frees = <<>>
    /\ tracked = {}
    /\ view = [t \in Threads |-> Threads] /\ sync = Threads
    /\ seen = [t \in Threads |-> {}]
    /\ value \in 0..MaxValue /\ given = value
    /\ NoIter /\ panicked = FALSE
    /\ locked = FALSE /\ futex = 0 /\ rwstate = 0 /\ NoRefCell
    /\ NoAsyncMutex /\ NoRc

\* Fault: the fetch_sub of drop() with Ordering::Relaxed.
DropOrdering_Relaxed == "Relaxed"

\* The orderings the source gives the two read-modify-writes of `owner`.
CloneOrdering == "Relaxed"
DropOrdering == "Release"

\* What a read-modify-write with ordering ord, made by a thread whose view
\* is v, adds to the views the cell carries: a release operation publishes
\* everything that happens-before it; any read-modify-write, whatever its
\* ordering, continues the release sequences the cell is the tail of.
Released(ord, v) == IF ord = "Release" THEN v ELSE {}

\* Fault: drop() without its fence.
AcquireFence_None(v, s) == v

\* fence(Acquire) by a thread whose view is v, after an atomic read that
\* read from release sequences publishing s: the fence synchronizes with
\* the release operations heading them.
AcquireFence(v, s) == v \cup s

\* clone(), first half: ptr.owner.fetch_add(1, Relaxed) through a live handle.
ArcClone(t) ==
    /\ obj = "Arc" /\ pc[t] = "idle"
    /\ held[t] >= 1
    /\ owner < MaxOwner
    /\ owner' = FetchAdd(owner)
    /\ sync' = sync \cup Released(CloneOrdering, view[t])
    /\ pc' = [pc EXCEPT ![t] = "clone_ret"]
    /\ UNCHANGED <<obj, tracked, local, held, frees, view, seen>> /\ NotArc

\* clone(), second half: the new handle is returned to the caller.
ArcCloneRet(t) ==
    /\ obj = "Arc" /\ pc[t] = "clone_ret"
    /\ held' = [held EXCEPT ![t] = @ + 1]
    /\ pc' = [pc EXCEPT ![t] = "idle"]
    /\ UNCHANGED <<obj, tracked, local, owner, frees, view, sync, seen>> /\ NotArc

\* Arc<T>: Send -- a handle is moved from thread t to thread u (into the
\* closure of thread::spawn in the tests): what t did before the move
\* happens-before what u does with the handle.
ArcSend(t, u) ==
    /\ obj = "Arc" /\ pc[t] = "idle" /\ t # u
    /\ held[t] >= 1
    /\ held' = [held EXCEPT ![t] = @ - 1, ![u] = @ + 1]
    /\ view' = [view EXCEPT ![u] = @ \cup view[t]]
    /\ UNCHANGED <<obj, tracked, pc, local, owner, frees, sync, seen>> /\ NotArc

\* drop(), first half: inner.owner.fetch_sub(1, Release); the handle is gone.
ArcDrop(t) ==
    /\ obj = "Arc" /\ pc[t] = "idle"
    /\ held[t] >= 1
    /\ local' = [local EXCEPT ![t] = owner]
    /\ owner' = FetchSub(owner)
    /\ seen' = [seen EXCEPT ![t] = sync]
    /\ sync' = sync \cup Released(DropOrdering, view[t])
    /\ held' = [held EXCEPT ![t] = @ - 1]
    /\ pc' = [pc EXCEPT ![t] = "drop_check"]
    /\ UNCHANGED <<obj, tracked, frees, view>> /\ NotArc

\* Fault: drop() takes fetch_sub's result for the new value of the count.
IsLastOwner_NewValue(prev) == prev = 0

\* Fault: drop() frees while one other handle is still counted.
IsLastOwner_Early(prev) == prev <= 2

\* The test of drop(): did fetch_sub return 1?
IsLastOwner(prev) == prev = 1

\* drop(), second half when fetch_sub returned 1: fence(Acquire) and
\* drop(Box::from_raw(ptr)): the payload destructor and the deallocation.
ArcDropFree(t) ==
    /\ obj = "Arc" /\ pc[t] = "drop_check"
    /\ IsLastOwner(local[t])
    /\ LET v == AcquireFence(view[t], seen[t]) IN
        /\ view' = [view EXCEPT ![t] = v]
        /\ frees' = Append(frees, [by |-> t, prev |-> local[t],
                                   live |-> LiveHandles + ClonesInFlight,
                                   unseen |-> Threads \ view[t],
                                   unordered |-> Threads \ v])
    /\ seen' = [seen EXCEPT ![t] = {}]
    /\ pc' = [pc EXCEPT ![t] = "idle"]
    /\ local' = [local EXCEPT ![t] = 0]
    /\ UNCHANGED <<obj, tracked, owner, held, sync>> /\ NotArc

\* drop(), second half otherwise: nothing more to do.
ArcDropKeep(t) ==
    /\ obj = "Arc" /\ pc[t] = "drop_check"
    /\ ~IsLastOwner(local[t])
    /\ seen' = [seen EXCEPT ![t] = {}]
    /\ pc' = [pc EXCEPT ![t] = "idle"]
    /\ local' = [local EXCEPT ![t] = 0]
    /\ UNCHANGED <<obj, tracked, owner, held, frees, view, sync>> /\ NotArc

\* `*x`, deref(): `&unsafe { self.ptr.as_ref() }.data` through a live handle.
\* The reference borrows the handle, which cannot be dropped while it lives.
ArcDeref(t) ==
    /\ obj = "Arc" /\ pc[t] = "idle"
    /\ held[t] >= 1
    /\ pc' = [pc EXCEPT ![t] = "deref"]
    /\ UNCHANGED <<obj, tracked, local, owner, held, frees, view, sync, seen>> /\ NotArc

\* `*x`, the read through the reference.  Reading a deallocated ArcInner
\* may yield anything.  The access is a new one: it happens-before no point
\* another thread has reached and nothing published so far covers it.
\* (Whether the accesses of thread u happen-before a point depends on no
\* other thread's accesses, so following one thread at a time loses
\* nothing.)
ArcRead(t) ==
    /\ obj = "Arc" /\ pc[t] = "deref"
    /\ \E read \in 0..MaxValue :
        /\ frees = <<>> => read = value
        /\ local' = [local EXCEPT ![t] = read]
    /\ LET new == {t} \cap tracked IN
        /\ view' = [u \in Threads |-> IF u = t THEN view[u] ELSE view[u] \ new]
        /\ sync' = sync \ new
        /\ seen' = [u \in Threads |-> seen[u] \ new]
    /\ pc' = [pc EXCEPT ![t] = "deref_ret"]
    /\ UNCHANGED <<obj, tracked, owner, held, frees>> /\ NotArc

\* The value read has been used (assert_eq! of the tests); the borrow ends.
ArcReadDone(t) ==
    /\ obj = "Arc" /\ pc[t] = "deref_ret"
    /\ local' = [local EXCEPT ![t] = 0]
    /\ pc' = [pc EXCEPT ![t] = "idle"]
    /\ UNCHANGED <<obj, tracked, owner, held, frees, view, sync, seen>> /\ NotArc

NextArc ==
    \E t \in Threads :
        \/ ArcClone(t)
        \/ ArcCloneRet(t)
        \/ \E u \in Threads : ArcSend(t, u)
        \/ ArcDrop(t)
        \/ ArcDropFree(t)
        \/ ArcDropKeep(t)
        \/ ArcDeref(t)
        \/ ArcRead(t)
        \/ ArcReadDone(t)

SpecArc == InitArc /\ [][NextArc]_vars

\* Arc::new(data), with the payload accesses of one thread followed: the
\* constructing thread, or one of the others (which no action tells apart).
InitArcOrder ==
    /\ obj = "Arc"
    /\ pc = [t \in Threads |-> "idle"]
    /\ local = [t \in Threads |-> 0]
    /\ owner = 1
    /\ held = [t \in Threads |-> IF t = 1 THEN 1 ELSE 0]
    /\ frees = <<>>
    /\ \E u \in {1, 2} : tracked = {u}
    /\ view = [t \in Threads |-> Threads] /\ sync = Threads
    /\ seen = [t \in Threads |-> {}]
    /\ value = 0 /\ given = value
    /\ NoIter /\ panicked = FALSE
    /\ locked = FALSE /\ futex = 0 /\ rwstate = 0 /\ NoRefCell
    /\ NoAsyncMutex /\ NoRc

\* deref() by the followed thread.
ArcDerefTracked(t) ==
    /\ t \in tracked
    /\ ArcDeref(t)

\* The operations of NextArc, the payload read by the followed thread only:
\* a read by another thread changes its own pc and local, which no other
\* thread's step depends on, and leaves it where it was.
NextArcOrder ==
    \E t \in Threads :
        \/ ArcClone(t)
        \/ ArcCloneRet(t)
        \/ \E u \in Threads : ArcSend(t, u)
        \/ ArcDrop(t)
        \/ ArcDropFree(t)
        \/ ArcDropKeep(t)
        \/ ArcDerefTracked(t)
        \/ ArcRead(t)
        \/ ArcReadDone(t)

SpecArcOrder == InitArcOrder /\ [][NextArcOrder]_vars

\* ================================================= Mutex and FutexMutex
\* Fault: an unconditional swap in place of the compare_exchange.
CompareExchange_Swap(cur, expected, new) == [ok |-> TRUE, val |-> new]

\* Fault: a compare_exchange that fails whatever it finds.
CompareExchange_Fails(cur, expected, new) == [ok |-> FALSE, val |-> cur]

\* Fault: a compare_exchange that reports success whatever it finds, and
\* stores nothing.
CompareExchange_Ignore(cur, expected, new) == [ok |-> TRUE, val |-> cur]

\* AtomicBool/AtomicU32::compare_exchange(expected, new) on a cell holding
\* cur: whether it succeeded (Ok/Err) and what the cell holds afterwards.
CompareExchange(cur, expected, new) ==
    IF cur = expected THEN [ok |-> TRUE, val |-> new]
    ELSE [ok |-> FALSE, val |-> cur]

\* The client of both contention tests: every thread runs
\*     for _ in 0..NIter { let mut guard = m.lock(); *guard += 1; }
\* pc[t] = "lock": at the loop test of lock(); "read"/"write": the two
\* halves of `*guard += 1`; "unlock": at the guard's drop; "done": joined.
AfterIncrement(t) == IF iter[t] + 1 >= NIter THEN "done" ELSE "lock"

\* Mutex::new(0) shared by the threads of test_mutex_contention_increment.
InitMutex ==
    /\ obj = "Mutex"
    /\ pc = [t \in Threads |-> "lock"]
    /\ local = [t \in Threads |-> 0]
    /\ value = 0 /\ NoIter /\ panicked = FALSE
    /\ locked = FALSE
    /\ futex = 0 /\ rwstate = 0 /\ NoArc /\ NoRefCell
    /\ given = 0 /\ NoAsyncMutex /\ NoRc

\* lock(): the compare_exchange(false, true) succeeds: the guard is returned.
MutexLock(t) ==
    /\ obj = "Mutex" /\ pc[t] = "lock"
    /\ LET r == CompareExchange(locked, FALSE, TRUE) IN
        /\ r.ok
        /\ locked' = r.val
    /\ pc' = [pc EXCEPT ![t] = "read"]
    /\ UNCHANGED <<obj, local, value, iter>> /\ NotMutex

\* Fault: `if` in place of `while`: lock() returns the guard after one
\* failed compare_exchange.
MutexAfterSpin_NoLoop == "read"

\* The `while` of lock(): after a failed compare_exchange and spin_loop()
\* the thread is back at the compare_exchange.
MutexAfterSpin == "lock"

\* lock(): the compare_exchange fails: spin_loop() and try again.
MutexSpin(t) ==
    /\ obj = "Mutex" /\ pc[t] = "lock"
    /\ LET r == CompareExchange(locked, FALSE, TRUE) IN
        /\ ~r.ok
        /\ locked' = r.val
    /\ pc' = [pc EXCEPT ![t] = MutexAfterSpin]
    /\ UNCHANGED <<obj, local, value, iter>> /\ NotMutex

\* `*guard += 1`, the load through DerefMut.
MutexGuardRead(t) ==
    /\ obj = "Mutex" /\ pc[t] = "read"
    /\ local' = [local EXCEPT ![t] = value]
    /\ pc' = [pc EXCEPT ![t] = "write"]
    /\ UNCHANGED <<obj, value, iter, locked>> /\ NotMutex

\* `*guard += 1`, the store through DerefMut.
MutexGuardWrite(t) ==
    /\ obj = "Mutex" /\ pc[t] = "write"
    /\ value' = local[t] + 1
    /\ local' = [local EXCEPT ![t] = 0]
    /\ pc' = [pc EXCEPT ![t] = "unlock"]
    /\ UNCHANGED <<obj, iter, locked>> /\ NotMutex

\* Fault: a drop that leaves the flag set.
MutexReleased_Stuck == TRUE

\* What MutexGuard::drop stores into `locked`.
MutexReleased == FALSE

\* MutexGuard::drop: locked.store(false, Release); the iteration is over.
MutexUnlock(t) ==
    /\ obj = "Mutex" /\ pc[t] = "unlock"
    /\ locked' = MutexReleased
    /\ iter' = [iter EXCEPT ![t] = @ + 1]
    /\ pc' = [pc EXCEPT ![t] = AfterIncrement(t)]
    /\ UNCHANGED <<obj, local, value>> /\ NotMutex

\* Clients that use the Mutex for as long as they like: a thread outside
\* every call ("idle") calls lock(), reads the payload through the guard,
\* writes it back incremented or leaves it, and drops the guard.
InitMutexClients ==
    /\ obj = "Mutex"
    /\ pc = [t \in Threads |-> "idle"]
    /\ local = [t \in Threads |-> 0]
    /\ value = 0 /\ NoIter /\ panicked = FALSE
    /\ locked = FALSE
    /\ futex = 0 /\ rwstate = 0 /\ NoArc /\ NoRefCell
    /\ given = 0 /\ NoAsyncMutex /\ NoRc

\* A thread calls lock().
MutexCall(t) ==
    /\ obj = "Mutex" /\ pc[t] = "idle"
    /\ pc' = [pc EXCEPT ![t] = "lock"]
    /\ UNCHANGED <<obj, local, value, iter, locked>> /\ NotMutex

\* `*guard += 1` through DerefMut, as long as the payload is below its cap.
MutexGuardWriteCapped(t) ==
    /\ value < MaxValue
    /\ MutexGuardWrite(t)

\* The guard was only read through (`*mutex.lock()` of the tests).
MutexGuardKeep(t) ==
    /\ obj = "Mutex" /\ pc[t] = "write"
    /\ local' = [local EXCEPT ![t] = 0]
    /\ pc' = [pc EXCEPT ![t] = "unlock"]
    /\ UNCHANGED <<obj, value, iter, locked>> /\ NotMutex

\* MutexGuard::drop: locked.store(false, Release); the thread is outside
\* every call again.
MutexRelease(t) ==
    /\ obj = "Mutex" /\ pc[t] = "unlock"
    /\ locked' = MutexReleased
    /\ pc' = [pc EXCEPT ![t] = "idle"]
    /\ UNCHANGED <<obj, local, value, iter>> /\ NotMutex

\* Every step thread t can take inside lock() and the scope of a guard:
\* what the OS scheduler, not the client, decides about.
MutexThread(t) ==
    \/ MutexLock(t)
    \/ MutexSpin(t)
    \/ MutexGuardRead(t)
    \/ MutexGuardWriteCapped(t)
    \/ MutexGuardKeep(t)
    \/ MutexRelease(t)

NextMutexClients ==
    \/ \E t \in Threads : MutexCall(t)
    \/ \E t \in Threads : MutexLock(t)
    \/ \E t \in Threads : MutexSpin(t)
    \/ \E t \in Threads : MutexGuardRead(t)
    \/ \E t \in Threads : MutexGuardWriteCapped(t)
    \/ \E t \in Threads : MutexGuardKeep(t)
    \/ \E t \in Threads : MutexRelease(t)

\* One schedule of the clients among those NextMutexClients allows: all
\* threads run freely while the payload is below its cap; from then on
\* thread 1 is given the processor for its compare_exchange only while the
\* flag is set, so that each of them fails, and the other threads go on
\* calling lock().
MutexStarved == {1}
MutexOthers == Threads \ MutexStarved

\* The compare_exchange of lock() succeeding, scheduled during the
\* free-running phase only.
MutexLockEarly(t) ==
    /\ value < MaxValue
    /\ MutexLock(t)

MutexStarvedSteps(t) ==
    \/ MutexCall(t)
    \/ MutexLockEarly(t)
    \/ MutexGuardRead(t)
    \/ MutexGuardWriteCapped(t)
    \/ MutexGuardKeep(t)
    \/ MutexRelease(t)

MutexOtherSteps(t) ==
    \/ MutexCall(t)
    \/ MutexLock(t)
    \/ MutexGuardRead(t)
    \/ MutexGuardWriteCapped(t)
    \/ MutexGuardKeep(t)
    \/ MutexRelease(t)

NextMutexStarve ==
    \/ \E t \in Threads : MutexCall(t)
    \/ \E t \in Threads : MutexSpin(t)
    \/ \E t \in MutexStarved : MutexLockEarly(t)
    \/ \E t \in MutexOthers : MutexLock(t)
    \/ \E t \in Threads : MutexGuardRead(t)
    \/ \E t \in Threads : MutexGuardWriteCapped(t)
    \/ \E t \in Threads : MutexGuardKeep(t)
    \/ \E t \in Threads : MutexRelease(t)

\* Every thread is scheduled again and again.
FairSpecMutexStarve ==
    /\ InitMutexClients /\ [][NextMutexStarve]_vars
    /\ \A t \in MutexStarved : WF_vars(MutexStarvedSteps(t))
    /\ \A t \in MutexOthers : WF_vars(MutexOtherSteps(t))

NextMutex ==
    \E t \in Threads :
        \/ MutexLock(t)
        \/ MutexSpin(t)
        \/ MutexGuardRead(t)
        \/ MutexGuardWrite(t)
        \/ MutexUnlock(t)

\* FutexMutex::new(0) shared by the threads of
\* test_futex_mutex_contention_increment.  Further positions of a thread:
\* "wait": about to call futex.wait(1); "sleep": asleep in the kernel;
\* "woken": futex.wait has returned from the sleep, the thread is at the
\* compare_exchange again; "wake": the guard's drop has stored 0 and is
\* about to call futex.wake(1).
InitFutexMutex ==
    /\ obj = "FutexMutex"
    /\ pc = [t \in Threads |-> "lock"]
    /\ local = [t \in Threads |-> 0]
    /\ value = 0 /\ NoIter /\ panicked = FALSE
    /\ futex = 0
    /\ locked = FALSE /\ rwstate = 0 /\ NoArc /\ NoRefCell
    /\ given = 0 /\ NoAsyncMutex /\ NoRc

\* Threads asleep in futex.wait.
Sleepers == {t \in Threads : pc[t] = "sleep"}

\* lock(): the compare_exchange(0, 1) succeeds: the guard is returned.
FutexLock(t) ==
    /\ obj = "FutexMutex" /\ pc[t] \in {"lock", "woken"}
    /\ LET r == CompareExchange(futex, 0, 1) IN
        /\ r.ok
        /\ futex' = r.val
    /\ pc' = [pc EXCEPT ![t] = "read"]
    /\ UNCHANGED <<obj, local, value, iter>> /\ NotFutexMutex

\* lock(): the compare_exchange fails: go on to futex.wait(1).
FutexLockFail(t) ==
    /\ obj = "FutexMutex" /\ pc[t] \in {"lock", "woken"}
    /\ LET r == CompareExchange(futex, 0, 1) IN
        /\ ~r.ok
        /\ futex' = r.val
    /\ pc' = [pc EXCEPT ![t] = "wait"]
    /\ UNCHANGED <<obj, local, value, iter>> /\ NotFutexMutex

\* Fault: a wait that sleeps without looking at the word.
WaitSleeps_NoCompare(word, expected) == TRUE

\* futex.wait(expected): the kernel puts the caller to sleep only if the
\* word still holds the expected value.
WaitSleeps(word, expected) == word = expected

\* futex.wait(1): the kernel compares the word with the expected value 1
\* and puts the thread to sleep only if they are equal; otherwise the call
\* returns at once and the loop of lock() tries again.
FutexWait(t) ==
    /\ obj = "FutexMutex" /\ pc[t] = "wait"
    /\ pc' = [pc EXCEPT ![t] = IF WaitSleeps(futex, 1) THEN "sleep" ELSE "lock"]
    /\ UNCHANGED <<obj, local, value, iter, futex>> /\ NotFutexMutex

\* Fault: `if` in place of `while`: lock() returns the guard as soon as
\* futex.wait returns.
FutexAfterWait_NoLoop == "read"

\* The `while` of lock(): when futex.wait returns from the sleep, whatever
\* the reason, the thread is back at the compare_exchange.
FutexAfterWait == "woken"

\* futex.wait(1) returns without a wake (a signal, a spurious wake-up);
\* the result of wait is discarded and the loop of lock() tries again.
FutexSpuriousWake(t) ==
    /\ obj = "FutexMutex" /\ pc[t] = "sleep"
    /\ pc' = [pc EXCEPT ![t] = FutexAfterWait]
    /\ UNCHANGED <<obj, local, value, iter, futex>> /\ NotFutexMutex

\* `*guard += 1`, the load through DerefMut.
FutexGuardRead(t) ==
    /\ obj = "FutexMutex" /\ pc[t] = "read"
    /\ local' = [local EXCEPT ![t] = value]
    /\ pc' = [pc EXCEPT ![t] = "write"]
    /\ UNCHANGED <<obj, value, iter, futex>> /\ NotFutexMutex

\* `*guard += 1`, the store through DerefMut.
FutexGuardWrite(t) ==
    /\ obj = "FutexMutex" /\ pc[t] = "write"
    /\ value' = local[t] + 1
    /\ local' = [local EXCEPT ![t] = 0]
    /\ pc' = [pc EXCEPT ![t] = "unlock"]
    /\ UNCHANGED <<obj, iter, futex>> /\ NotFutexMutex

\* What FutexMutexGuard::drop stores into the futex word.
FutexReleased == 0

\* FutexMutexGuard::drop, first half: futex.value.store(0, Release).
FutexUnlock(t) ==
    /\ obj = "FutexMutex" /\ pc[t] = "unlock"
    /\ futex' = FutexReleased
    /\ pc' = [pc EXCEPT ![t] = "wake"]
    /\ UNCHANGED <<obj, local, value, iter>> /\ NotFutexMutex

\* FutexMutexGuard::drop, second half: futex.wake(1) wakes one sleeper u.
FutexWakeOne(t, u) ==
    /\ obj = "FutexMutex" /\ pc[t] = "wake"
    /\ u \in Sleepers
    /\ iter' = [iter EXCEPT ![t] = @ + 1]
    /\ pc' = [pc EXCEPT ![t] = AfterIncrement(t), ![u] = FutexAfterWait]
    /\ UNCHANGED <<obj, local, value, futex>> /\ NotFutexMutex

\* FutexMutexGuard::drop, second half: futex.wake(1) finds nobody asleep.
FutexWakeNone(t) ==
    /\ obj = "FutexMutex" /\ pc[t] = "wake"
    /\ Sleepers = {}
    /\ iter' = [iter EXCEPT ![t] = @ + 1]
    /\ pc' = [pc EXCEPT ![t] = AfterIncrement(t)]
    /\ UNCHANGED <<obj, local, value, futex>> /\ NotFutexMutex

NextFutexMutex ==
    \E t \in Threads :
        \/ FutexLock(t)
        \/ FutexLockFail(t)
        \/ FutexWait(t)
        \/ FutexSpuriousWake(t)
        \/ FutexGuardRead(t)
        \/ FutexGuardWrite(t)
        \/ FutexUnlock(t)
        \/ \E u \in Threads : FutexWakeOne(t, u)
        \/ FutexWakeNone(t)

\* The steps thread t takes when it is scheduled; a wake-up without a wake
\* is not one of them.
FutexThread(t) ==
    \/ FutexLock(t)
    \/ FutexLockFail(t)
    \/ FutexWait(t)
    \/ FutexGuardRead(t)
    \/ FutexGuardWrite(t)
    \/ FutexUnlock(t)
    \/ \E u \in Threads : FutexWakeOne(t, u)
    \/ FutexWakeNone(t)

SpecFutexMutex == InitFutexMutex /\ [][NextFutexMutex]_vars

\* The OS schedules every thread that is not asleep again and again.
FairSpecFutexMutex ==
    SpecFutexMutex /\ \A t \in Threads : WF_vars(FutexThread(t))

\* Threads that are neither asleep nor finished: each is on its way to a
\* guard drop, whose wake(1) wakes a sleeper.
FutexAwake == {t \in Threads : pc[t] \notin {"sleep", "done"}}

\* Threads inside lock().
FutexWaiting == {t \in Threads : pc[t] \in {"lock", "woken", "wait", "sleep"}}

\* One Mutex or one FutexMutex under its contention test.
InitMutexes == InitMutex \/ InitFutexMutex
NextMutexes == NextMutex \/ NextFutexMutex
SpecMutexes == InitMutexes /\ [][NextMutexes]_vars

\* ================================================================= RwLock
\* Fault: the closure of read() refuses below -1 only, so it admits a
\* reader while a writer holds the lock.
ReadUpdate_OffByOne(x) ==
    IF x < -1 THEN [some |-> FALSE, val |-> x] ELSE [some |-> TRUE, val |-> x + 1]

\* Fault: the closure of read() admits a reader only when no reader holds
\* the lock.
ReadUpdate_OneReader(x) ==
    IF x # 0 THEN [some |-> FALSE, val |-> x] ELSE [some |-> TRUE, val |-> x + 1]

\* The closure read() passes to fetch_update: None (refuse) for x < 0,
\* Some(x + 1) otherwise.
ReadUpdate(x) ==
    IF x < 0 THEN [some |-> FALSE, val |-> x] ELSE [some |-> TRUE, val |-> x + 1]

\* What write() exchanges 0 for.
WriteLocked == -1

\* What RwLockWriteGuard::drop stores.
RwReleased == 0

\* Positions of a thread: "idle": outside every call, holding no guard;
\* "read": read() is at AtomicIsize::fetch_update's load; "read_cas":
\* fetch_update is at its compare_exchange_weak, local[t] the value loaded;
\* "rguard": read() has returned, the read guard is live; "rdrop": the
\* payload was read, the guard is about to be dropped; "write": write() is
\* at its compare_exchange; "wguard": the write guard is live; "wdrop": the
\* payload was written, the guard is about to be dropped.
InitRwLock ==
    /\ obj = "RwLock"
    /\ pc = [t \in Threads |-> "idle"]
    /\ local = [t \in Threads |-> 0]
    /\ value = 0 /\ NoIter /\ panicked = FALSE
    /\ rwstate = 0
    /\ locked = FALSE /\ futex = 0 /\ NoArc /\ NoRefCell
    /\ given = 0 /\ NoAsyncMutex /\ NoRc

\* Writes begun and not yet stored into the payload.
WritesPending == Cardinality({t \in Threads : pc[t] \in {"write", "wguard"}})

\* A thread calls read().
RwCallRead(t) ==
    /\ obj = "RwLock" /\ pc[t] = "idle"
    /\ pc' = [pc EXCEPT ![t] = "read"]
    /\ UNCHANGED <<obj, local, value, panicked, rwstate>> /\ NotRwLock

\* A thread calls write() (as long as the payload stays below its cap).
RwCallWrite(t) ==
    /\ obj = "RwLock" /\ pc[t] = "idle"
    /\ value + WritesPending < MaxValue
    /\ pc' = [pc EXCEPT ![t] = "write"]
    /\ UNCHANGED <<obj, local, value, panicked, rwstate>> /\ NotRwLock

\* read(): fetch_update loads the state; if the closure refuses it,
\* fetch_update returns Err and the loop of read() calls it again, otherwise
\* it goes on to compare_exchange_weak(prev, prev + 1).
RwReadLoad(t) ==
    /\ obj = "RwLock" /\ pc[t] = "read"
    /\ IF ~ReadUpdate(rwstate).some
       THEN UNCHANGED <<pc, local>>
       ELSE /\ pc' = [pc EXCEPT ![t] = "read_cas"]
            /\ local' = [local EXCEPT ![t] = rwstate]
    /\ UNCHANGED <<obj, value, panicked, rwstate>> /\ NotRwLock

\* read(): fetch_update's compare_exchange_weak succeeds: the read guard is
\* returned.  (A spurious failure of compare_exchange_weak changes nothing
\* and is a stuttering step.)
RwReadAcquire(t) ==
    /\ obj = "RwLock" /\ pc[t] = "read_cas"
    /\ LET r == CompareExchange(rwstate, local[t], ReadUpdate(local[t]).val) IN
        /\ r.ok
        /\ rwstate' = r.val
    /\ pc' = [pc EXCEPT ![t] = "rguard"]
    /\ local' = [local EXCEPT ![t] = 0]
    /\ UNCHANGED <<obj, value, panicked>> /\ NotRwLock

\* read(): fetch_update's compare_exchange_weak fails and returns the value
\* it found; the closure is applied to that value: Some: exchange again;
\* None: fetch_update returns Err and read() starts it over.
RwReadRetry(t) ==
    /\ obj = "RwLock" /\ pc[t] = "read_cas"
    /\ LET r == CompareExchange(rwstate, local[t], ReadUpdate(local[t]).val) IN
        /\ ~r.ok
        /\ rwstate' = r.val
        /\ IF ~ReadUpdate(r.val).some
           THEN /\ pc' = [pc EXCEPT ![t] = "read"]
                /\ local' = [local EXCEPT ![t] = 0]
           ELSE /\ pc' = pc
                /\ local' = [local EXCEPT ![t] = r.val]
    /\ UNCHANGED <<obj, value, panicked>> /\ NotRwLock

\* The read guard's Deref: the payload is read.
RwReadValue(t) ==
    /\ obj = "RwLock" /\ pc[t] = "rguard"
    /\ local' = [local EXCEPT ![t] = value]
    /\ pc' = [pc EXCEPT ![t] = "rdrop"]
    /\ UNCHANGED <<obj, value, panicked, rwstate>> /\ NotRwLock

\* RwLockReadGuard::drop: prev_value = state.fetch_sub(1, Release);
\* assert!(prev_value >= 1).
RwDropRead(t) ==
    /\ obj = "RwLock" /\ pc[t] = "rdrop"
    /\ rwstate' = FetchSub(rwstate)
    /\ panicked' = (panicked \/ ~(rwstate >= 1))
    /\ pc' = [pc EXCEPT ![t] = "idle"]
    /\ local' = [local EXCEPT ![t] = 0]
    /\ UNCHANGED <<obj, value>> /\ NotRwLock

\* write(): the compare_exchange(0, -1) succeeds: the write guard is returned.
RwWriteAcquire(t) ==
    /\ obj = "RwLock" /\ pc[t] = "write"
    /\ LET r == CompareExchange(rwstate, 0, WriteLocked) IN
        /\ r.ok
        /\ rwstate' = r.val
    /\ pc' = [pc EXCEPT ![t] = "wguard"]
    /\ UNCHANGED <<obj, local, value, panicked>> /\ NotRwLock

\* write(): the compare_exchange fails: spin_loop() and try again.
RwWriteSpin(t) ==
    /\ obj = "RwLock" /\ pc[t] = "write"
    /\ LET r == CompareExchange(rwstate, 0, WriteLocked) IN
        /\ ~r.ok
        /\ rwstate' = r.val
    /\ UNCHANGED <<obj, pc, local, value, panicked>> /\ NotRwLock

\* The write guard's DerefMut: `*w += 1`.
RwWriteValue(t) ==
    /\ obj = "RwLock" /\ pc[t] = "wguard"
    /\ value' = value + 1
    /\ pc' = [pc EXCEPT ![t] = "wdrop"]
    /\ UNCHANGED <<obj, local, panicked, rwstate>> /\ NotRwLock

\* RwLockWriteGuard::drop: state.store(0, Release).
RwDropWrite(t) ==
    /\ obj = "RwLock" /\ pc[t] = "wdrop"
    /\ rwstate' = RwReleased
    /\ pc' = [pc EXCEPT ![t] = "idle"]
    /\ UNCHANGED <<obj, local, value, panicked>> /\ NotRwLock

NextRwLock ==
    \E t \in Threads :
        \/ RwCallRead(t)
        \/ RwCallWrite(t)
        \/ RwReadLoad(t)
        \/ RwReadAcquire(t)
        \/ RwReadRetry(t)
        \/ RwReadValue(t)
        \/ RwDropRead(t)
        \/ RwWriteAcquire(t)
        \/ RwWriteSpin(t)
        \/ RwWriteValue(t)
        \/ RwDropWrite(t)

SpecRwLock == InitRwLock /\ [][NextRwLock]_vars

\* Every step thread t can take inside read(), write() and the scope of a
\* guard: what the OS scheduler, not the client, decides about.
RwThread(t) ==
    \/ RwReadLoad(t)
    \/ RwReadAcquire(t)
    \/ RwReadRetry(t)
    \/ RwReadValue(t)
    \/ RwDropRead(t)
    \/ RwWriteAcquire(t)
    \/ RwWriteSpin(t)
    \/ RwWriteValue(t)
    \/ RwDropWrite(t)

\* Both spinning locks under a fair scheduler: every thread that can take a
\* step inside lock(), read(), write() or the scope of its guard does take
\* one (a guard that is live is dropped after finitely many steps); when
\* and what the clients call is left open.
InitLocks == InitMutexClients \/ InitRwLock

NextLocks == NextMutexClients \/ NextRwLock

FairSpecLocks ==
    /\ InitLocks /\ [][NextLocks]_vars
    /\ \A t \in Threads : WF_vars(MutexThread(t))
    /\ \A t \in Threads : WF_vars(RwThread(t))

\* One workload and schedule of the RwLock among those SpecRwLock allows:
\* thread 1 only calls write(), the other threads only call read(), and
\* while the write() is pending the scheduler lets a reader run its guard's
\* drop only when another read guard is live as well.
RwWriters == {1}
RwReaders == Threads \ RwWriters

\* A write() is at its compare_exchange.
WritePending == \E w \in RwWriters : pc[w] = "write"

\* RwLockReadGuard::drop, scheduled after the next reader has its guard.
RwDropReadLate(t) ==
    /\ WritePending => rwstate >= 2
    /\ RwDropRead(t)

RwWriterSteps(t) ==
    \/ RwCallWrite(t)
    \/ RwWriteAcquire(t)
    \/ RwWriteSpin(t)
    \/ RwWriteValue(t)
    \/ RwDropWrite(t)

RwReaderSteps(t) ==
    \/ RwCallRead(t)
    \/ RwReadLoad(t)
    \/ RwReadAcquire(t)
    \/ RwReadRetry(t)
    \/ RwReadValue(t)

NextRwStarve ==
    \/ \E t \in RwWriters : RwCallWrite(t)
    \/ \E t \in RwWriters : RwWriteAcquire(t)
    \/ \E t \in RwWriters : RwWriteSpin(t)
    \/ \E t \in RwWriters : RwWriteValue(t)
    \/ \E t \in RwWriters : RwDropWrite(t)
    \/ \E t \in RwReaders : RwCallRead(t)
    \/ \E t \in RwReaders : RwReadLoad(t)
    \/ \E t \in RwReaders : RwReadAcquire(t)
    \/ \E t \in RwReaders : RwReadRetry(t)
    \/ \E t \in RwReaders : RwReadValue(t)
    \/ \E t \in RwReaders : RwDropReadLate(t)

\* Every thread is scheduled again and again; an exchange of read() and a
\* guard's drop that can succeed again and again do succeed.
FairSpecRwStarve ==
    /\ InitRwLock /\ [][NextRwStarve]_vars
    /\ \A t \in RwWriters : WF_vars(RwWriterSteps(t))
    /\ \A t \in RwReaders : WF_vars(RwReaderSteps(t))
    /\ \A t \in RwReaders : SF_vars(RwReadAcquire(t))
    /\ \A t \in RwReaders : SF_vars(RwDropReadLate(t))

\* ================================================================ RefCell
\* Fault: borrow() on Shared(n) hands out a Ref without counting it.
Borrow_NoCount(st) ==
    CASE st.tag = "Exclusive" -> [state |-> st, some |-> FALSE]
      [] st.tag = "Shared" -> [state |-> Shared(st.n), some |-> TRUE]
      [] st.tag = "Unshared" -> [state |-> Shared(1), some |-> TRUE]

\* RefCell::borrow as a function of the state it reads: the state it leaves
\* and whether it returns Some(Ref) or None.
Borrow(st) ==
    CASE st.tag = "Exclusive" -> [state |-> st, some |-> FALSE]
      [] st.tag = "Shared" -> [state |-> Shared(st.n + 1), some |-> TRUE]
      [] st.tag = "Unshared" -> [state |-> Shared(1), some |-> TRUE]

\* Fault: borrow_mut() refuses on Exclusive only, not on Shared(_).
BorrowMut_SharedAllowed(st) ==
    CASE st.tag = "Exclusive" -> [state |-> st, some |-> FALSE]
      [] OTHER -> [state |-> Exclusive, some |-> TRUE]

\* Fault: a refused borrow_mut() resets the state on its way out.
BorrowMut_RefusedResets(st) ==
    CASE st.tag \in {"Exclusive", "Shared"} -> [state |-> Unshared, some |-> FALSE]
      [] st.tag = "Unshared" -> [state |-> Exclusive, some |-> TRUE]

\* RefCell::borrow_mut likewise: Some(RefMut) or None.
BorrowMut(st) ==
    CASE st.tag \in {"Exclusive", "Shared"} -> [state |-> st, some |-> FALSE]
      [] st.tag = "Unshared" -> [state |-> Exclusive, some |-> TRUE]

\* Fault: Ref::drop without the arm for ref_count == 1: the last Ref
\* leaves Shared(0) behind.
DropRef_NoLastArm(st) ==
    CASE st.tag \in {"Exclusive", "Unshared"} -> [state |-> st, panic |-> TRUE]
      [] OTHER -> [state |-> Shared(st.n - 1), panic |-> FALSE]

\* Ref::drop: the state it leaves, and whether it ran into unreachable!().
DropRef(st) ==
    CASE st.tag \in {"Exclusive", "Unshared"} -> [state |-> st, panic |-> TRUE]
      [] st.tag = "Shared" /\ st.n = 1 -> [state |-> Unshared, panic |-> FALSE]
      [] OTHER -> [state |-> Shared(st.n - 1), panic |-> FALSE]

\* Fault: RefMut::drop leaves the state as it found it.
DropRefMut_Keep(st) == st

\* RefMut::drop: the state it leaves.
DropRefMut(st) == Unshared

\* The guards of the RefCell the client holds.
Guards == 1..MaxGuards
Refs == Cardinality({g \in Guards : guards[g] = "Ref"})
RefMuts == Cardinality({g \in Guards : guards[g] = "RefMut"})

\* The record kept of the call just made: its name, the state and the live
\* guards it found, whether it returned Some, and the payload it read.
Call(op, some, val) ==
    [op |-> op, before |-> refstate, rd |-> Refs, wr |-> RefMuts,
     some |-> some, val |-> val]

\* RefCell::new(v), used by one thread.
InitRefCell ==
    /\ obj = "RefCell"
    /\ NoThreads /\ NoIter
    /\ value \in 0..MaxValue /\ panicked = FALSE
    /\ refstate = Unshared
    /\ guards = [g \in Guards |-> "none"]
    /\ last = [op |-> "new", before |-> Unshared, rd |-> 0, wr |-> 0,
               some |-> FALSE, val |-> 0]
    /\ locked = FALSE /\ futex = 0 /\ rwstate = 0 /\ NoArc
    /\ given = 0 /\ NoAsyncMutex /\ NoRc

\* let g = c.borrow(): g is a live Ref guard iff Some is returned.
RefBorrow(g) ==
    /\ obj = "RefCell" /\ ~panicked
    /\ guards[g] = "none"
    /\ LET r == Borrow(refstate) IN
        /\ refstate' = r.state
        /\ guards' = IF r.some THEN [guards EXCEPT ![g] = "Ref"] ELSE guards
        /\ last' = Call("borrow", r.some, 0)
    /\ UNCHANGED <<obj, value, panicked>> /\ NotRefCell

\* let g = c.borrow_mut(): g is a live RefMut guard iff Some is returned.
RefBorrowMut(g) ==
    /\ obj = "RefCell" /\ ~panicked
    /\ guards[g] = "none"
    /\ LET r == BorrowMut(refstate) IN
        /\ refstate' = r.state
        /\ guards' = IF r.some THEN [guards EXCEPT ![g] = "RefMut"] ELSE guards
        /\ last' = Call("borrow_mut", r.some, 0)
    /\ UNCHANGED <<obj, value, panicked>> /\ NotRefCell

\* drop(g) of a live Ref guard.
RefDropRef(g) ==
    /\ obj = "RefCell" /\ ~panicked
    /\ guards[g] = "Ref"
    /\ LET r == DropRef(refstate) IN
        /\ refstate' = r.state
        /\ panicked' = r.panic
    /\ guards' = [guards EXCEPT ![g] = "none"]
    /\ last' = Call("drop_ref", FALSE, 0)
    /\ UNCHANGED <<obj, value>> /\ NotRefCell

\* drop(g) of a live RefMut guard.
RefDropRefMut(g) ==
    /\ obj = "RefCell" /\ ~panicked
    /\ guards[g] = "RefMut"
    /\ refstate' = DropRefMut(refstate)
    /\ guards' = [guards EXCEPT ![g] = "none"]
    /\ last' = Call("drop_refmut", FALSE, 0)
    /\ UNCHANGED <<obj, value, panicked>> /\ NotRefCell

\* *g of a live Ref or RefMut guard (Deref): &*cell.value.get().
RefDeref(g) ==
    /\ obj = "RefCell" /\ ~panicked
    /\ guards[g] \in {"Ref", "RefMut"}
    /\ last' = Call("deref", FALSE, value)
    /\ UNCHANGED <<obj, value, panicked, refstate, guards>> /\ NotRefCell

\* *g = v of a live RefMut guard (DerefMut).
RefMutWrite(g, v) ==
    /\ obj = "RefCell" /\ ~panicked
    /\ guards[g] = "RefMut"
    /\ value' = v
    /\ last' = Call("deref_mut", FALSE, v)
    /\ UNCHANGED <<obj, panicked, refstate, guards>> /\ NotRefCell

NextRefCell ==
    \E g \in Guards :
        \/ RefBorrow(g)
        \/ RefBorrowMut(g)
        \/ RefDropRef(g)
        \/ RefDropRefMut(g)
        \/ RefDeref(g)
        \/ \E v \in 0..MaxValue : RefMutWrite(g, v)

SpecRefCell == InitRefCell /\ [][NextRefCell]_vars

\* ============================================================= AsyncMutex
\* src/src/async_mutex.rs.  The tasks of test_async_mutex_multiple_threads
\* each run NIter times `let mut guard = m.lock().await.unwrap(); *guard += 1;`.
\* tokio's Semaphore is modelled by its documented interface: acquire() takes
\* a permit when one is available, queues the task in arrival order when
\* none is, and fails once the semaphore is closed; a released permit goes
\* to the task at the head of the queue before it becomes available again.
\* pc: "alock" calling acquire(), "suspended" queued, "granted" the permit
\* has been assigned and the task is runnable, "refused" woken by close(),
\* "aread"/"awrite" inside `*guard += 1`, "adrop" at the end of the guard's
\* scope, "err" lock() returned Err, "done".

\* Fault: an acquire() that returns a permit without taking one.
AcquirePermit_NoTake(p) == p

\* Semaphore::acquire taking one permit.
AcquirePermit(p) == p - 1

\* The drop of a SemaphorePermit returning it.
ReleasePermit(p) == p + 1

\* Fault: a release that takes the head of the queue off it and does not
\* wake it.
WakeOnRelease_Lost == "suspended"

\* What the task at the head of the queue becomes when a permit is released.
WakeOnRelease == "granted"

AsyncAfterIncrement(t) == IF iter[t] + 1 >= NIter THEN "done" ELSE "alock"

\* AsyncMutex::new(0usize): Semaphore::new(1), shared by every task.
InitAsyncMutex ==
    /\ obj = "AsyncMutex"
    /\ pc = [t \in Threads |-> "alock"]
    /\ local = [t \in Threads |-> 0]
    /\ value = 0 /\ NoIter /\ panicked = FALSE
    /\ permits = 1 /\ closed = FALSE /\ waiters = <<>>
    /\ locked = FALSE /\ futex = 0 /\ rwstate = 0 /\ NoArc /\ NoRefCell
    /\ given = 0 /\ NoRc

\* lock(): acquire() finds a permit; Ok(MutexGuard { mutex, permit }).
AsyncAcquire(t) ==
    /\ obj = "AsyncMutex" /\ pc[t] = "alock"
    /\ ~closed /\ permits > 0
    /\ permits' = AcquirePermit(permits)
    /\ pc' = [pc EXCEPT ![t] = "aread"]
    /\ UNCHANGED <<obj, local, value, iter, closed, waiters>>
    /\ NotAsyncMutex

\* lock(): acquire() finds no permit; the task is queued and suspends.
AsyncSuspend(t) ==
    /\ obj = "AsyncMutex" /\ pc[t] = "alock"
    /\ ~closed /\ permits = 0
    /\ waiters' = Append(waiters, t)
    /\ pc' = [pc EXCEPT ![t] = "suspended"]
    /\ UNCHANGED <<obj, local, value, iter, permits, closed>>
    /\ NotAsyncMutex

\* lock(): acquire() answers Err(AcquireError) and `?` returns it, either
\* at the call or when the suspended task is woken by the shutdown.
AsyncAcquireErr(t) ==
    /\ obj = "AsyncMutex" /\ pc[t] \in {"alock", "refused"}
    /\ closed
    /\ pc' = [pc EXCEPT ![t] = "err"]
    /\ UNCHANGED <<obj, local, value, iter, asyncVars>>
    /\ NotAsyncMutex

\* lock(): the woken task is polled, acquire() is Ready(Ok(permit)) and the
\* guard is returned.
AsyncResume(t) ==
    /\ obj = "AsyncMutex" /\ pc[t] = "granted"
    /\ pc' = [pc EXCEPT ![t] = "aread"]
    /\ UNCHANGED <<obj, local, value, iter, asyncVars>>
    /\ NotAsyncMutex

\* lock(): the task was assigned the permit and the semaphore was closed
\* before the task was polled; a poll that answers Err gives the permit back.
AsyncResumeErr(t) ==
    /\ obj = "AsyncMutex" /\ pc[t] = "granted"
    /\ closed
    /\ permits' = ReleasePermit(permits)
    /\ pc' = [pc EXCEPT ![t] = "err"]
    /\ UNCHANGED <<obj, local, value, iter, closed, waiters>>
    /\ NotAsyncMutex

\* `*guard += 1`, the load through deref_mut().
AsyncGuardRead(t) ==
    /\ obj = "AsyncMutex" /\ pc[t] = "aread"
    /\ local' = [local EXCEPT ![t] = value]
    /\ pc' = [pc EXCEPT ![t] = "awrite"]
    /\ UNCHANGED <<obj, value, iter, asyncVars>>
    /\ NotAsyncMutex

\* `*guard += 1`, the store through deref_mut().
AsyncGuardWrite(t) ==
    /\ obj = "AsyncMutex" /\ pc[t] = "awrite"
    /\ value' = local[t] + 1
    /\ pc' = [pc EXCEPT ![t] = "adrop"]
    /\ UNCHANGED <<obj, local, iter, asyncVars>>
    /\ NotAsyncMutex

\* The guard goes out of scope: its SemaphorePermit is dropped.  The permit
\* is assigned to the longest-waiting task, or added back when none waits.
AsyncDropGuard(t) ==
    /\ obj = "AsyncMutex" /\ pc[t] = "adrop"
    /\ IF waiters = <<>>
       THEN /\ permits' = ReleasePermit(permits)
            /\ waiters' = waiters
            /\ pc' = [pc EXCEPT ![t] = AsyncAfterIncrement(t)]
       ELSE /\ permits' = permits
            /\ waiters' = Tail(waiters)
            /\ pc' = [pc EXCEPT ![t] = AsyncAfterIncrement(t),
                                ![Head(waiters)] = WakeOnRelease]
    /\ iter' = [iter EXCEPT ![t] = iter[t] + 1]
    /\ local' = [local EXCEPT ![t] = 0]
    /\ UNCHANGED <<obj, value, closed>>
    /\ NotAsyncMutex

\* The semaphore is shut down (Semaphore::close, the condition the Err arm
\* of lock() answers to): every queued task is woken to be refused.  No code
\* of the crate closes the semaphore; the step stands for the library side.
AsyncClose ==
    /\ obj = "AsyncMutex" /\ ~closed
    /\ closed' = TRUE
    /\ waiters' = <<>>
    /\ pc' = [t \in Threads |-> IF pc[t] = "suspended" THEN "refused"
                                 ELSE pc[t]]
    /\ UNCHANGED <<obj, local, value, iter, permits>>
    /\ NotAsyncMutex

\* The steps task t takes when the runtime polls it.
AsyncTask(t) ==
    \/ AsyncAcquire(t)
    \/ AsyncSuspend(t)
    \/ AsyncAcquireErr(t)
    \/ AsyncResume(t)
    \/ AsyncResumeErr(t)
    \/ AsyncGuardRead(t)
    \/ AsyncGuardWrite(t)
    \/ AsyncDropGuard(t)

NextAsyncMutex ==
    \/ \E t \in Threads : AsyncAcquire(t)
    \/ \E t \in Threads : AsyncSuspend(t)
    \/ \E t \in Threads : AsyncAcquireErr(t)
    \/ \E t \in Threads : AsyncResume(t)
    \/ \E t \in Threads : AsyncResumeErr(t)
    \/ \E t \in Threads : AsyncGuardRead(t)
    \/ \E t \in Threads : AsyncGuardWrite(t)
    \/ \E t \in Threads : AsyncDropGuard(t)
    \/ AsyncClose

SpecAsyncMutex == InitAsyncMutex /\ [][NextAsyncMutex]_vars

\* The runtime polls every runnable task again: a task that can take a step
\* eventually takes one.  A suspended task is not runnable.
FairSpecAsyncMutex ==
    SpecAsyncMutex /\ \A t \in Threads : WF_vars(AsyncTask(t))

\* Tasks of the AsyncMutex that own the permit: from the moment acquire()
\* assigns it to the task until the guard's SemaphorePermit is dropped.
PermitHolders ==
    {t \in Threads : pc[t] \in {"granted", "aread", "awrite", "adrop"}}

\* =================================================================== Cell
\* src/src/cell.rs.  set() overwrites the slot, get() copies it out; neither
\* synchronises.  cur is the content of the slot when the call runs.
\* Fault: a set() that stores nothing.
CellSet_Keep(cur, v) == cur

\* set(v): what the slot holds afterwards.
CellSet(cur, v) == v

\* get(): the copy returned.
CellGet(cur) == cur

\* One thread, test_cell: Cell::new(v), then any calls of set() and get().
\* iter[1] counts the calls of set() made, up to NIter.
InitCell ==
    /\ obj = "Cell"
    /\ pc = [t \in Threads |-> IF t = 1 THEN "idle" ELSE "none"]
    /\ local = [t \in Threads |-> 0]
    /\ value \in 0..MaxValue /\ given = value
    /\ NoIter /\ panicked = FALSE
    /\ locked = FALSE /\ futex = 0 /\ rwstate = 0 /\ NoArc /\ NoRefCell
    /\ NoAsyncMutex /\ NoRc

\* set(v): `*self.value.get() = value`.
CellCallSet(t, v) ==
    /\ obj = "Cell" /\ pc[t] = "idle"
    /\ iter[t] < NIter
    /\ value' = CellSet(value, v)
    /\ given' = v
    /\ iter' = [iter EXCEPT ![t] = iter[t] + 1]
    /\ UNCHANGED <<obj, pc, local, panicked>>
    /\ NotCell

\* get(): `*self.value.get()`, a copy of the slot is returned.
CellCallGet(t) ==
    /\ obj = "Cell" /\ pc[t] = "idle"
    /\ local' = [local EXCEPT ![t] = CellGet(value)]
    /\ pc' = [pc EXCEPT ![t] = "got"]
    /\ UNCHANGED <<obj, value, iter, given, panicked>>
    /\ NotCell

\* The copy has been used (assert_eq! of test_cell).
CellGetRet(t) ==
    /\ obj = "Cell" /\ pc[t] = "got"
    /\ local' = [local EXCEPT ![t] = 0]
    /\ pc' = [pc EXCEPT ![t] = "idle"]
    /\ UNCHANGED <<obj, value, iter, given, panicked>>
    /\ NotCell

\* test_unsafe_with_threads: `unsafe impl<T> Sync for Cell<T> {}` lets two
\* spawned threads share Cell::new(0); each runs NPasses times
\* `let val = x.get(); x.set(val + 1);`.  The accesses race: the outcomes
\* are those of the loads and stores in any order.
CellRacers == {1, 2}

InitCellShared ==
    /\ obj = "CellShared"
    /\ pc = [t \in Threads |-> IF t \in CellRacers THEN "get" ELSE "none"]
    /\ local = [t \in Threads |-> 0]
    /\ value = 0 /\ given = 0
    /\ NoIter /\ panicked = FALSE
    /\ locked = FALSE /\ futex = 0 /\ rwstate = 0 /\ NoArc /\ NoRefCell
    /\ NoAsyncMutex /\ NoRc

\* `let val = x.get();`
CellRaceGet(t) ==
    /\ obj = "CellShared" /\ pc[t] = "get"
    /\ local' = [local EXCEPT ![t] = CellGet(value)]
    /\ pc' = [pc EXCEPT ![t] = "set"]
    /\ UNCHANGED <<obj, value, iter, given, panicked>>
    /\ NotCell

\* `x.set(val + 1);` and the end of one pass of the loop.
CellRaceSet(t) ==
    /\ obj = "CellShared" /\ pc[t] = "set"
    /\ value' = CellSet(value, local[t] + 1)
    /\ given' = local[t] + 1
    /\ iter' = [iter EXCEPT ![t] = iter[t] + 1]
    /\ local' = [local EXCEPT ![t] = 0]
    /\ pc' = [pc EXCEPT
                ![t] = IF iter[t] + 1 >= NPasses THEN "done" ELSE "get"]
    /\ UNCHANGED <<obj, panicked>>
    /\ NotCell

\* The main thread, after both joins: `assert!(x.get() < 200000)`, the
\* bound being twice the number of passes of each thread.
CellRaceAssert ==
    /\ obj = "CellShared"
    /\ \A t \in CellRacers : pc[t] = "done"
    /\ panicked' = ~(CellGet(value) < 2 * NPasses)
    /\ pc' = [t \in Threads |-> IF t \in CellRacers THEN "joined" ELSE pc[t]]
    /\ UNCHANGED <<obj, local, value, iter, given>>
    /\ NotCell

NextCell ==
    \/ \E t \in Threads, v \in 0..MaxValue : CellCallSet(t, v)
    \/ \E t \in Threads : CellCallGet(t)
    \/ \E t \in Threads : CellGetRet(t)
    \/ \E t \in Threads : CellRaceGet(t)
    \/ \E t \in Threads : CellRaceSet(t)
    \/ CellRaceAssert

SpecCell == (InitCell \/ InitCellShared) /\ [][NextCell]_vars

\* ===================================================================== Rc
\* src/src/rc.rs.  Rc is neither Send nor Sync: every handle lives on the
\* thread that called new(), thread 1.  Handles are told apart by the
\* variable that owns them.  local[t] is [h |-> the handle the call is
\* about, c |-> the number the call has computed].
Handles == 1..MaxOwner

\* The block has been deallocated: what a read of it yields is undefined.
Freed == frees # <<>>

\* Fault: drop() frees while one other handle is still counted.
RcIsLast_Early(c) == c <= 1

\* `if c == 0` of drop().
RcIsLast(c) == c = 0

\* Rc::new(value): owner_count = Cell::new(1), one handle.
InitRc ==
    /\ obj = "Rc"
    /\ pc = [t \in Threads |-> IF t = 1 THEN "idle" ELSE "none"]
    /\ local = [t \in Threads |-> 0]
    /\ value \in 0..MaxValue /\ given = value
    /\ owner_count = 1 /\ handles = {1}
    /\ NoIter /\ panicked = FALSE
    /\ locked = FALSE /\ futex = 0 /\ rwstate = 0 /\ NoArc /\ NoRefCell
    /\ NoAsyncMutex

\* clone() through handle src, `inner.owner_count.get() + 1`; dst is the
\* variable the new handle will be bound to.
RcClone(t, src, dst) ==
    /\ obj = "Rc" /\ pc[t] = "idle"
    /\ src \in handles /\ dst \notin handles
    /\ local' = [local EXCEPT ![t] = [h |-> dst, c |-> CellGet(owner_count) + 1]]
    /\ pc' = [pc EXCEPT ![t] = "clone_set"]
    /\ UNCHANGED <<obj, value, panicked, frees, given, rcVars>>
    /\ NotRc

\* clone(): `inner.owner_count.set(..)`.
RcCloneSet(t) ==
    /\ obj = "Rc" /\ pc[t] = "clone_set"
    /\ owner_count' = CellSet(owner_count, local[t].c)
    /\ pc' = [pc EXCEPT ![t] = "clone_ret"]
    /\ UNCHANGED <<obj, local, value, panicked, frees, given, handles>>
    /\ NotRc

\* clone(): `Rc { inner: self.inner, .. }` is returned; the handle is live.
RcCloneRet(t) ==
    /\ obj = "Rc" /\ pc[t] = "clone_ret"
    /\ handles' = handles \cup {local[t].h}
    /\ local' = [local EXCEPT ![t] = 0]
    /\ pc' = [pc EXCEPT ![t] = "idle"]
    /\ UNCHANGED <<obj, value, panicked, frees, given, owner_count>>
    /\ NotRc

\* `*a`: deref() and the read of the payload through handle h.  Reading a
\* deallocated block may yield anything.
RcDeref(t, h) ==
    /\ obj = "Rc" /\ pc[t] = "idle"
    /\ h \in handles
    /\ \E read \in 0..MaxValue :
        /\ ~Freed => read = value
        /\ local' = [local EXCEPT ![t] = [h |-> h, c |-> read]]
    /\ pc' = [pc EXCEPT ![t] = "deref"]
    /\ UNCHANGED <<obj, value, panicked, frees, given, rcVars>>
    /\ NotRc

\* The value read has been compared (assert_eq! of test_rc).
RcDerefRet(t) ==
    /\ obj = "Rc" /\ pc[t] = "deref"
    /\ local' = [local EXCEPT ![t] = 0]
    /\ pc' = [pc EXCEPT ![t] = "idle"]
    /\ UNCHANGED <<obj, value, panicked, frees, given, rcVars>>
    /\ NotRc

\* drop() of handle h: `let c = inner.owner_count.get() - 1`.  The handle is
\* dead from here on.  A usize subtraction below 0 panics in a debug build
\* and wraps in a release build; the flag records it and the thread stops.
RcDrop(t, h) ==
    /\ obj = "Rc" /\ pc[t] = "idle"
    /\ h \in handles
    /\ handles' = handles \ {h}
    /\ IF CellGet(owner_count) >= 1
       THEN /\ local' = [local EXCEPT
                            ![t] = [h |-> h, c |-> CellGet(owner_count) - 1]]
            /\ pc' = [pc EXCEPT ![t] = "drop_set"]
            /\ panicked' = panicked
       ELSE /\ local' = local
            /\ pc' = [pc EXCEPT ![t] = "underflow"]
            /\ panicked' = TRUE
    /\ UNCHANGED <<obj, value, frees, given, owner_count>>
    /\ NotRc

\* drop(): `inner.owner_count.set(c)`.
RcDropSet(t) ==
    /\ obj = "Rc" /\ pc[t] = "drop_set"
    /\ owner_count' = CellSet(owner_count, local[t].c)
    /\ pc' = [pc EXCEPT ![t] = "drop_check"]
    /\ UNCHANGED <<obj, local, value, panicked, frees, given, handles>>
    /\ NotRc

\* drop(): c == 0, drop(Box::from_raw(..)) frees the payload and the block.
RcDropFree(t) ==
    /\ obj = "Rc" /\ pc[t] = "drop_check"
    /\ RcIsLast(local[t].c)
    /\ frees' = Append(frees, [by |-> local[t].h, prev |-> local[t].c,
                               live |-> Cardinality(handles)])
    /\ local' = [local EXCEPT ![t] = 0]
    /\ pc' = [pc EXCEPT ![t] = "idle"]
    /\ UNCHANGED <<obj, value, panicked, given, rcVars>>
    /\ NotRc

\* drop(): c # 0, other handles remain and the block stays.
RcDropKeep(t) ==
    /\ obj = "Rc" /\ pc[t] = "drop_check"
    /\ ~RcIsLast(local[t].c)
    /\ local' = [local EXCEPT ![t] = 0]
    /\ pc' = [pc EXCEPT ![t] = "idle"]
    /\ UNCHANGED <<obj, value, panicked, frees, given, rcVars>>
    /\ NotRc

NextRc ==
    \/ \E t \in Threads, src, dst \in Handles : RcClone(t, src, dst)
    \/ \E t \in Threads : RcCloneSet(t)
    \/ \E t \in Threads : RcCloneRet(t)
    \/ \E t \in Threads, h \in Handles : RcDeref(t, h)
    \/ \E t \in Threads : RcDerefRet(t)
    \/ \E t \in Threads, h \in Handles : RcDrop(t, h)
    \/ \E t \in Threads : RcDropSet(t)
    \/ \E t \in Threads : RcDropFree(t)
    \/ \E t \in Threads : RcDropKeep(t)

SpecRc == InitRc /\ [][NextRc]_vars

\* Threads holding a live guard of the Mutex or FutexMutex: from the return
\* of lock() to the store of the guard's drop.
LockGuards == {t \in Threads : pc[t] \in {"read", "write", "unlock"}}

\* Threads holding a live read guard / write guard of the RwLock: from the
\* return of read() / write() to the fetch_sub / store of the guard's drop.
ReadGuards == {t \in Threads : pc[t] \in {"rguard", "rdrop"}}
WriteGuards == {t \in Threads : pc[t] \in {"wguard", "wdrop"}}

\* Every thread of the contention test has finished its NIter increments.
AllDone == \A t \in Threads : pc[t] = "done"

\* ============================================================ all objects
Init ==
    \/ InitArc \/ InitMutex \/ InitFutexMutex \/ InitRwLock \/ InitRefCell
    \/ InitAsyncMutex \/ InitRc \/ InitCell \/ InitCellShared

Next ==
    \/ NextArc \/ NextMutex \/ NextFutexMutex \/ NextRwLock \/ NextRefCell
    \/ NextAsyncMutex \/ NextRc \/ NextCell

Spec == Init /\ [][Next]_vars

\* ================================================================= claims

\* C1 (Arc): in every interleaving of clone() and drop() the payload
\* destructor and the deallocation run at most once, the thread that runs
\* them is one whose fetch_sub returned 1, no handle is live and no clone is
\* in progress when they run or afterwards, and once every handle has been
\* dropped and every drop has returned they have run exactly once.
C1_DropExactlyOnce ==
    obj = "Arc" =>
        /\ Len(frees) <= 1
        /\ \A i \in 1..Len(frees) : frees[i].prev = 1 /\ frees[i].live = 0
        /\ (frees # <<>> => LiveHandles = 0 /\ ClonesInFlight = 0)
        /\ (LiveHandles = 0 /\ (\A t \in Threads : pc[t] = "idle")
                => Len(frees) = 1)

\* The block was freed by a thread other than the one that called new(),
\* i.e. by the drop of a clone that was sent to it.
C1_Witness ==
    obj = "Arc" /\ Len(frees) = 1 /\ frees[1].by # 1 /\ frees[1].prev = 1

\* C2 (Arc): new() sets the count to 1, clone() adds 1 and drop() subtracts
\* 1: the owner count is always the number of live handles plus the clones
\* whose fetch_add is done and whose handle is not yet returned; so with no
\* clone or drop in progress the count is the number of live handles.
C2_OwnerCountsHandles ==
    obj = "Arc" =>
        /\ owner = LiveHandles + ClonesInFlight
        /\ ((\A t \in Threads : pc[t] = "idle") => owner = LiveHandles)

\* A drop (whose fetch_sub found more than one owner) and a clone are in
\* progress at the same time on different threads.
C2_Witness ==
    /\ obj = "Arc"
    /\ \E t, u \in Threads :
        pc[t] = "drop_check" /\ local[t] >= 2 /\ pc[u] = "clone_ret"

\* C3 (Mutex): at most one guard is live, `locked` is true whenever a guard
\* is live, and a thread leaves lock() with a guard only by a step that
\* changes `locked` from false to true.
C3_MutexExclusion ==
    /\ [](obj = "Mutex" =>
            /\ Cardinality(LockGuards) <= 1
            /\ (LockGuards # {} => locked = TRUE))
    /\ [][obj = "Mutex" =>
            \A t \in Threads :
                (pc[t] = "lock" /\ pc'[t] = "read")
                    => (locked = FALSE /\ locked' = TRUE)]_vars

\* One thread holds the guard in its second iteration while another is at
\* the compare_exchange of lock().
C3_Witness ==
    /\ obj = "Mutex"
    /\ \E t, u \in Threads :
        t \in LockGuards /\ iter[t] >= 1 /\ pc[u] = "lock" /\ locked = TRUE

\* C4 (FutexMutex): at most one guard is live and the futex word is 1
\* whenever a guard is live, in every interleaving, spurious and stale
\* returns of futex.wait included.
C4_FutexExclusion ==
    obj = "FutexMutex" =>
        /\ Cardinality(LockGuards) <= 1
        /\ (LockGuards # {} => futex = 1)

\* A thread has returned from its sleep in futex.wait while another thread
\* holds the guard: the wake-up is spurious or stale.
C4_Witness ==
    /\ obj = "FutexMutex"
    /\ \E t, u \in Threads : t \in LockGuards /\ pc[u] = "woken" /\ futex = 1

\* C5 (Mutex, FutexMutex): when every thread has finished its NIter guarded
\* increments the payload is NThreads * NIter.
C5_NoLostUpdate ==
    (obj \in {"Mutex", "FutexMutex"} /\ AllDone) => value = NThreads * NIter

\* All threads of the FutexMutex test are done, each after NIter increments.
C5_Witness ==
    /\ obj = "FutexMutex" /\ AllDone
    /\ \A t \in Threads : iter[t] = NIter
    /\ value = NThreads * NIter


\* C6 (RwLock): a write guard and a read guard never exist at the same
\* time, and at most one write guard exists.
C6_RwExclusion ==
    obj = "RwLock" =>
        /\ ~(WriteGuards # {} /\ ReadGuards # {})
        /\ Cardinality(WriteGuards) <= 1

\* A write guard that has written the payload is still live, while one
\* thread is inside read() and another inside write().
C6_Witness ==
    /\ obj = "RwLock" /\ value >= 1
    /\ \E t, u, w \in Threads :
        pc[t] = "wdrop" /\ pc[u] = "read" /\ pc[w] = "write"

\* C7 (RwLock): the state counter reflects the live guards: it is never
\* below -1; -1 means exactly one write guard and no read guard; k >= 0
\* means exactly k read guards and no write guard; with no guard live it
\* is 0.
C7_RwStateCountsGuards ==
    obj = "RwLock" =>
        /\ rwstate >= -1
        /\ (rwstate = -1 =>
                Cardinality(WriteGuards) = 1 /\ ReadGuards = {})
        /\ (rwstate >= 0 =>
                Cardinality(ReadGuards) = rwstate /\ WriteGuards = {})
        /\ (ReadGuards = {} /\ WriteGuards = {} => rwstate = 0)

\* Two read guards are live (state 2) while a thread waits in write().
C7_Witness ==
    /\ obj = "RwLock" /\ rwstate = 2 /\ Cardinality(ReadGuards) = 2
    /\ \E w \in Threads : pc[w] = "write"

\* C8 (RefCell): borrow_mut() returns Some exactly when no guard is live;
\* then the state it found was Unshared and the state it leaves is
\* Exclusive; when it returns None it leaves the state as it found it.
\* Exclusive is entered from Unshared only.
C8_BorrowMut ==
    obj = "RefCell" =>
        /\ (last.op = "borrow_mut" =>
                /\ (last.some <=> last.rd + last.wr = 0)
                /\ (last.some => last.before = Unshared /\ refstate = Exclusive)
                /\ (~last.some => refstate = last.before))
        /\ (refstate = Exclusive /\ last.before # Exclusive =>
                last.op = "borrow_mut" /\ last.before = Unshared)

\* borrow_mut() has just been refused while two read guards are live.
C8_Witness ==
    /\ obj = "RefCell"
    /\ last.op = "borrow_mut" /\ ~last.some /\ last.rd = 2 /\ Refs = 2

\* C9 (RefCell): borrow() returns None exactly when the state is Exclusive,
\* i.e. a write guard is live; from Unshared it leaves Shared(1), from
\* Shared(n) it leaves Shared(n + 1); a read through a guard yields the
\* current payload.
C9_Borrow ==
    obj = "RefCell" =>
        /\ (last.op = "borrow" =>
                /\ (~last.some <=> last.before = Exclusive)
                /\ (~last.some <=> last.wr >= 1)
                /\ (last.before = Unshared => refstate = Shared(1))
                /\ (last.before.tag = "Shared" =>
                        refstate = Shared(last.before.n + 1))
                /\ (last.some => Refs = last.rd + 1)
                /\ (~last.some => refstate = last.before /\ Refs = last.rd))
        /\ (last.op = "deref" => last.val = value)

\* borrow() has just returned a third read guard.
C9_Witness ==
    /\ obj = "RefCell"
    /\ last.op = "borrow" /\ last.some /\ last.before = Shared(2) /\ Refs = 3

\* C10 (RefCell): the state matches the live guards: Shared(n) only with
\* n >= 1, exactly n read guards and no write guard; Exclusive only with
\* exactly one write guard and no read guard; Unshared only with no guard.
C10_StateMatchesGuards ==
    obj = "RefCell" =>
        /\ refstate # Shared(0)
        /\ (refstate.tag = "Shared" =>
                refstate.n >= 1 /\ Refs = refstate.n /\ RefMuts = 0)
        /\ (refstate = Exclusive => RefMuts = 1 /\ Refs = 0)
        /\ (refstate = Unshared => Refs = 0 /\ RefMuts = 0)

\* One of three read guards has just been dropped.
C10_Witness ==
    /\ obj = "RefCell"
    /\ last.op = "drop_ref" /\ last.before = Shared(3) /\ refstate = Shared(2)

C12_LockReturns ==
    /\ [](obj = "AsyncMutex" =>
            \A t \in Threads : pc[t] \in {"err", "refused"} => closed)
    /\ [][\A t \in Threads :
            (closed /\ pc[t] \in {"alock", "refused"} /\ pc'[t] # pc[t])
                => pc'[t] = "err"]_vars
    /\ \A t \in Threads :
            (obj = "AsyncMutex" /\ pc[t] \in {"alock", "suspended"})
                ~> (closed \/ pc[t] = "aread")
    /\ [][\A t \in Threads :
            (obj = "AsyncMutex" /\ pc[t] = "adrop" /\ pc'[t] # "adrop")
                => IF waiters = <<>>
                   THEN permits' = permits + 1
                   ELSE /\ permits' = permits
                        /\ pc'[Head(waiters)] = "granted"
                        /\ waiters' = Tail(waiters)]_vars

\* A guard was dropped while two tasks waited: the first of them has been
\* assigned the permit, the other is still suspended.
C12_Witness ==
    /\ obj = "AsyncMutex" /\ ~closed /\ permits = 0
    /\ \E t, u \in Threads :
            /\ pc[t] = "granted" /\ pc[u] = "suspended"
            /\ waiters = <<u>>

\* C13 (Rc): in every single-threaded sequence of new, clone, read and drop,
\* between calls the owner count equals the number of live handles, and
\* it is at least 1 while any handle exists; a read through a live handle
\* finds the block allocated and yields the value given to new(), whatever
\* handles have been dropped before; the block is freed at most once, by a
\* drop that computed 0 and after which no handle is left, and it has been
\* freed once no handle is left and the drop has returned; and the
\* subtraction in drop() never goes below 0.
C13_RcCountsHandles ==
    obj = "Rc" =>
        /\ pc[1] = "idle" => owner_count = Cardinality(handles)
        /\ handles # {} => owner_count >= 1
        /\ handles # {} => ~Freed
        /\ pc[1] = "deref" => local[1].c = given
        /\ Len(frees) <= 1
        /\ \A i \in 1..Len(frees) : frees[i].prev = 0 /\ frees[i].live = 0
        /\ (handles = {} /\ pc[1] = "idle") => Len(frees) = 1
        /\ ~panicked /\ pc[1] # "underflow"

\* The handle new() returned has been dropped; the payload is read through
\* the clone that remains.
C13_Witness ==
    /\ obj = "Rc" /\ pc[1] = "deref"
    /\ handles = {2} /\ owner_count = 1
    /\ local[1] = [h |-> 2, c |-> given]

\* C15 (Arc): no operation of the type changes the payload.  The payload
\* always holds the value passed to new(), and every read through a
\* handle, whatever clone(), drop() and moves of other handles the other
\* threads interleave with it, finds the ArcInner allocated and yields that
\* value.
C15_ArcPayloadFrame ==
    obj = "Arc" =>
        /\ value = given
        /\ \A t \in Threads :
            /\ pc[t] \in {"deref", "deref_ret"} => frees = <<>>
            /\ pc[t] = "deref_ret" => local[t] = given

\* A thread has read the payload through its handle after another thread
\* has dropped its own (a fetch_sub that did not return 1 is in progress).
C15_Witness ==
    /\ obj = "Arc"
    /\ \E t, u \in Threads :
        /\ t # u /\ u # 1
        /\ pc[t] = "deref_ret" /\ local[t] = given
        /\ pc[u] = "drop_check" /\ local[u] >= 2

C16_UpdateLost ==
    obj = "CellShared" =>
        /\ (\A t \in CellRacers : pc[t] \in {"done", "joined"})
                => value < 2 * NPasses
        /\ ~panicked

\* C17 (Cell): on one thread the slot always holds the value most recently
\* passed to set(), or the value given to new() when set() has not been
\* called; get() returns that value and leaves the slot as it was.
C17_GetReturnsLastSet ==
    /\ [](obj = "Cell" =>
            /\ value = given
            /\ pc[1] = "got" => local[1] = given)
    /\ [][(obj = "Cell" /\ pc[1] = "idle" /\ pc'[1] = "got")
            => (value' = value /\ local'[1] = value)]_vars

\* test_cell: set() has been called, with a value other than 0, and get()
\* has returned it.
C17_Witness ==
    /\ obj = "Cell" /\ pc[1] = "got"
    /\ iter[1] >= 1 /\ given = MaxValue
    /\ local[1] = MaxValue

\* C18 (FutexMutex): no wake-up is lost.  In no reachable state is a thread
\* asleep in futex.wait while every other thread is asleep or finished; in
\* particular never with the word at 0, where a sleeper needs a thread that
\* is about to call wake(1) or to take the lock and release it.  With every
\* thread that is not asleep scheduled again and again, and no wake-up but
\* those of wake(1): whenever a thread is inside lock(), some thread
\* acquires the lock later on; and every thread finishes its NIter
\* lock() calls, so that every thread that was asleep has been woken and
\* has acquired the lock.
C18_NoLostWakeup ==
    /\ [](obj = "FutexMutex" =>
            /\ Sleepers # {} => FutexAwake # {}
            /\ (futex = 0 /\ Sleepers # {}) =>
                    \E t \in Threads : pc[t] \in {"lock", "woken", "wait", "wake"})
    /\ (obj = "FutexMutex" /\ FutexWaiting # {})
            ~> (\E t \in Threads : pc[t] = "read")
    /\ <>(obj = "FutexMutex" /\ AllDone)

\* The word is 0 and a thread is asleep: the thread that released is at its
\* wake(1).
C18_Witness ==
    /\ obj = "FutexMutex" /\ futex = 0
    /\ \E t, u \in Threads :
        /\ pc[t] = "sleep" /\ pc[u] = "wake"
        /\ \A w \in Threads \ {t, u} : pc[w] \in {"sleep", "done"}

\* C19 (RwLock): a writer can be delayed forever by readers.  There are
\* executions of the lock, those of the schedule FairSpecRwStarve, in which
\* every thread is scheduled fairly (each thread's steps are taken again and
\* again unless none can change anything), every read guard is dropped
\* after finitely many steps, every reader gets a read guard again and
\* again, and from the first moment a write() is pending while a read guard
\* is live the state stays at 1 or above, so that the writer's
\* compare_exchange(0, -1) fails every time and the write() never returns.
C19_WriterStarves ==
    /\ [][(obj = "RwLock" /\ WritePending /\ rwstate >= 1)
            => (WritePending /\ rwstate >= 1)']_vars
    /\ \A t \in Threads : WF_vars(RwThread(t))
    /\ \A t \in RwReaders :
            /\ (pc[t] \in {"rguard", "rdrop"}) ~> (pc[t] = "idle")
            /\ []<>(pc[t] = "rguard")
    /\ [](\A t \in RwReaders : pc[t] \notin {"write", "wguard", "wdrop"})
    /\ [](\A t \in RwWriters : pc[t] \notin {"read", "read_cas", "rguard", "rdrop"})

\* The write() is pending and has been overtaken: one reader is about to
\* drop its guard, another has arrived in the meantime and holds its own.
C19_Witness ==
    /\ obj = "RwLock" /\ WritePending /\ rwstate = 2
    /\ \E t, u \in RwReaders :
        /\ t # u /\ pc[t] = "rdrop" /\ pc[u] = "rguard"

\* C20 (RwLock): the assertion of the read guard's drop holds in every
\* interleaving: whenever a read guard is live, and so whenever one is
\* dropped, the state is at least 1, and the assertion has never fired.
\* Whenever a write guard is live, and so whenever one is dropped, the state
\* is -1, which the drop replaces by 0.
C20_DropPreconditions ==
    /\ [](obj = "RwLock" =>
            /\ ~panicked
            /\ \A t \in Threads :
                /\ pc[t] \in {"rguard", "rdrop"} => rwstate >= 1
                /\ pc[t] \in {"wguard", "wdrop"} => rwstate = -1)
    /\ [][\A t \in Threads :
            /\ (obj = "RwLock" /\ pc[t] = "rdrop" /\ pc'[t] = "idle")
                => (rwstate >= 1 /\ rwstate' = rwstate - 1 /\ ~panicked')
            /\ (obj = "RwLock" /\ pc[t] = "wdrop" /\ pc'[t] = "idle")
                => (rwstate = -1 /\ rwstate' = 0)]_vars

\* After a write guard was dropped (the payload was written), all threads
\* but one are about to drop a read guard; the last holds none.
C20_Witness ==
    /\ obj = "RwLock" /\ ~panicked
    /\ value >= 1 /\ rwstate = NThreads - 1
    /\ \E t \in Threads :
        /\ pc[t] = "idle"
        /\ \A u \in Threads \ {t} : pc[u] = "rdrop"

\* C21 (RefCell): in every sequence of borrow(), borrow_mut() and guard
\* drops, the drop of a Ref finds the state Shared(n) with n >= 1 and leaves
\* Unshared when n = 1 and Shared(n - 1) when n > 1; the drop of a RefMut
\* leaves Unshared; the unreachable!() arm of Ref::drop is never taken; and
\* when no guard is live the state is Unshared.
C21_DropTransitions ==
    obj = "RefCell" =>
        /\ ~panicked
        /\ last.op = "drop_ref" =>
            /\ last.before.tag = "Shared" /\ last.before.n >= 1
            /\ last.before.n = 1 => refstate = Unshared
            /\ last.before.n > 1 => refstate = Shared(last.before.n - 1)
        /\ last.op = "drop_refmut" => refstate = Unshared
        /\ (\A g \in Guards : guards[g] = "none") => refstate = Unshared

\* One of two live Refs has just been dropped: Shared(2) became Shared(1).
C21_Witness ==
    /\ obj = "RefCell" /\ last.op = "drop_ref"
    /\ last.before = Shared(2) /\ last.rd = 2
    /\ refstate = Shared(1) /\ Refs = 1

\* C22 (RefCell): a borrow() or borrow_mut() that returns None changes
\* nothing: the borrow state, the payload and the set of live guards are
\* after the call what they were before it, and the call does not panic;
\* so a later request is judged against the same state.
C22_RefusedChangesNothing ==
    /\ [][(obj = "RefCell" /\ last'.op \in {"borrow", "borrow_mut"}
                /\ ~last'.some)
            => UNCHANGED <<refstate, value, guards, panicked>>]_vars
    /\ [](obj = "RefCell" =>
            ((last.op \in {"borrow", "borrow_mut"} /\ ~last.some)
                => (refstate = last.before /\ Refs = last.rd
                        /\ RefMuts = last.wr)))

\* borrow_mut() has just been refused while two Refs are live: the state is
\* still Shared(2).
C22_Witness ==
    /\ obj = "RefCell" /\ last.op = "borrow_mut" /\ ~last.some
    /\ last.before = Shared(2) /\ refstate = Shared(2) /\ Refs = 2

\* C23 (Mutex): an individual waiter can starve.  There are executions of
\* the lock, those of the schedule FairSpecMutexStarve, that are weakly fair
\* to every thread (each thread's steps inside lock() and under its guard
\* are taken again and again unless they are disabled again and again), in
\* which every guard is dropped after finitely many steps and the lock is
\* acquired and released again and again, while thread 1, from the first
\* moment it is inside lock() with the payload at its cap, stays at its
\* compare_exchange for ever: each one it makes finds the flag set, because
\* another thread has taken the lock again.
C23_WaiterStarves ==
    /\ [][\A t \in MutexStarved :
            (obj = "Mutex" /\ value = MaxValue /\ pc[t] = "lock")
                => (value = MaxValue /\ pc[t] = "lock")']_vars
    /\ \A t \in Threads : WF_vars(MutexThread(t))
    /\ \A t \in Threads :
            (pc[t] \in {"read", "write", "unlock"}) ~> (pc[t] = "idle")
    /\ \A t \in MutexStarved :
            (value = MaxValue /\ pc[t] = "lock")
                ~> (\E u \in MutexOthers : pc[u] = "read")
    /\ []<>(~locked)

\* Thread 1 is inside lock(), the flag is free for the moment, and another
\* thread is about to take the lock ahead of it.
C23_Witness ==
    /\ obj = "Mutex" /\ ~locked
    /\ \E t \in MutexStarved, u, w \in MutexOthers :
        /\ u # w
        /\ pc[t] = "lock" /\ pc[u] = "lock" /\ pc[w] = "idle"
        /\ value = MaxValue


\* Some thread is inside lock(), read() or write().
Acquiring ==
    \/ obj = "Mutex" /\ \E t \in Threads : pc[t] = "lock"
    \/ obj = "RwLock" /\ \E t \in Threads : pc[t] \in {"read", "read_cas", "write"}

\* Some thread has a live guard.
Holding ==
    \/ obj = "Mutex" /\ \E t \in Threads : pc[t] \in {"read", "write", "unlock"}
    \/ obj = "RwLock"
        /\ \E t \in Threads : pc[t] \in {"rguard", "rdrop", "wguard", "wdrop"}

\* A call of lock(), read() or write() returns its guard.
ObtainsGuard ==
    \E t \in Threads : MutexLock(t) \/ RwReadAcquire(t) \/ RwWriteAcquire(t)

\* Thread t, inside an acquire loop, can leave the position it is at: its
\* exchange can succeed, or fetch_update can go on to its exchange with a
\* value the closure admits.
CanAdvance(t) ==
    \/ (ENABLED MutexLock(t))
    \/ (ENABLED RwWriteAcquire(t))
    \/ (ENABLED RwReadAcquire(t))
    \/ (ENABLED <<RwReadLoad(t) \/ RwReadRetry(t)>>_vars)

\* C24 (Mutex, RwLock): the spinning locks are deadlock-free.  Under a fair
\* scheduler, with every guard dropped after finitely many steps, either
\* calls go on returning guards for ever or from some moment on no thread
\* is inside lock(), read() or write(): a thread inside one of them is
\* followed by some thread obtaining a guard.  And while the lock is free
\* (flag false, state 0) no thread in an acquire loop is stuck: its
\* exchange can succeed.
C24_DeadlockFree ==
    /\ [](\A t \in Threads :
            /\ (obj = "Mutex" /\ ~locked /\ pc[t] = "lock") => CanAdvance(t)
            /\ (obj = "RwLock" /\ rwstate = 0
                    /\ pc[t] \in {"read", "read_cas", "write"}) => CanAdvance(t))
    /\ (<>[](~Acquiring)) \/ ([]<><<ObtainsGuard>>_vars)
    /\ (Acquiring /\ ~Holding) ~> Holding

\* C24: the lock is free again after a guard was dropped and every thread
\* is inside an acquire loop.
C24_Witness ==
    /\ value >= 1
    /\ \/ /\ obj = "Mutex" /\ ~locked
          /\ \A t \in Threads : pc[t] = "lock"
       \/ /\ obj = "RwLock" /\ rwstate = 0
          /\ \A t \in Threads : pc[t] \in {"read", "read_cas", "write"}
          /\ \E w \in Threads : pc[w] = "write"
          /\ \E r \in Threads : pc[r] = "read_cas"


\* C25 (Arc): when drop() destroys the payload and frees the block, every
\* access any thread has made to the payload happens-before it: the
\* Release fetch_sub of the accessing thread's later drop published the
\* access, and the fence(Acquire) of the last dropper, after its fetch_sub
\* read from that release sequence, acquired it.
C25_AccessesBeforeFree ==
    obj = "Arc" =>
        \A i \in 1..Len(frees) : frees[i].unordered = {}

\* C25: the block was freed by a thread that, until its fence, had no
\* happens-before edge from a payload access of another thread, which had
\* dropped its own handle earlier.
C25_Witness ==
    /\ obj = "Arc" /\ Len(frees) = 1
    /\ frees[1].unseen # {} /\ frees[1].unordered = {}
    /\ frees[1].by \notin frees[1].unseen

=============================================================================
